---- MODULE Spec2Model ----
(***************************************************************************)
(* Model of src/src/App.js (second variant of the tic-tac-toe Game, lines  *)
(* 139-331): the pure function calculateWinner, and the Game component's   *)
(* state (history, currentMove, isAscending) with its three event          *)
(* handlers: a click on a square, a click on a history button, a click on  *)
(* the toggle button.                                                      *)
(*                                                                         *)
(* The first variant of Game (lines 1-137) runs beside it and is given the *)
(* same clicks on squares and on history buttons; its definitions carry    *)
(* the suffix 1.                                                           *)
(*                                                                         *)
(* Arrays keep the source's 0-based indices: a JS array of length n is a   *)
(* function with domain 0..n-1.                                            *)
(***************************************************************************)
EXTENDS Integers, FiniteSets, Sequences, TLC

VARIABLES
    history,      \* Game state: array of {squares, row, col}      (App.js:206)
    currentMove,  \* Game state: index of the displayed entry      (App.js:213)
    isAscending,  \* Game state: order of the rendered move list   (App.js:288)
    history1,     \* first variant: array of arrays of nine squares (App.js:68)
    currentMove1, \* first variant: index of the displayed board    (App.js:70)
    squaresArg,   \* argument of a stand-alone call of calculateWinner
    winnerRes     \* what that call returned, <<"pending">> before it ran

vars == <<history, currentMove, isAscending, history1, currentMove1, squaresArg, winnerRes>>

\* Longest game explored: a square click is followed only while currentMove < MaxMoves.
MaxMoves == 5

----------------------------------------------------------------------------
\* Values and arrays

\* JS null, as a square's value and as the row/col of the first entry.
null == "null"

Marks == {"X", "O"}

\* JS null as the return value of calculateWinner (no line found).
noWinner == <<>>

\* arr.length
length(arr) == Cardinality(DOMAIN arr)

\* Indices of the nine squares.
Cells == 0..8

\* Array(9).fill(null)
emptySquares == [i \in Cells |-> null]

\* All arrays of nine squares over {null, "X", "O"}.
Boards == [Cells -> Marks \cup {null}]

\* arr.slice().reverse()
reverse(arr) == [k \in DOMAIN arr |-> arr[length(arr) - 1 - k]]

----------------------------------------------------------------------------
\* calculateWinner

\* lines with the third row mistyped as [0, 6, 8].
linesWithTypo == [k \in 0..7 |->
            CASE k = 0 -> <<0, 1, 2>>
              [] k = 1 -> <<3, 4, 5>>
              [] k = 2 -> <<0, 6, 8>>
              [] k = 3 -> <<0, 3, 6>>
              [] k = 4 -> <<1, 4, 7>>
              [] k = 5 -> <<2, 5, 8>>
              [] k = 6 -> <<0, 4, 8>>
              [] k = 7 -> <<2, 4, 6>>]

\* const lines = [...]
lines == [k \in 0..7 |->
            CASE k = 0 -> <<0, 1, 2>>
              [] k = 1 -> <<3, 4, 5>>
              [] k = 2 -> <<6, 7, 8>>
              [] k = 3 -> <<0, 3, 6>>
              [] k = 4 -> <<1, 4, 7>>
              [] k = 5 -> <<2, 5, 8>>
              [] k = 6 -> <<0, 4, 8>>
              [] k = 7 -> <<2, 4, 6>>]

\* The for loop of calculateWinner, from iteration i on.
RECURSIVE calculateWinnerLoop(_, _)
calculateWinnerLoop(squares, i) ==
    IF i < length(lines)
    THEN LET a == lines[i][1]
             b == lines[i][2]
             c == lines[i][3]
         IN  IF squares[a] # null /\ squares[a] = squares[b] /\ squares[a] = squares[c]
             THEN <<squares[a], a, b, c>>
             ELSE calculateWinnerLoop(squares, i + 1)
    ELSE noWinner

\* calculateWinner with the test squares[a] && dropped from the condition.
RECURSIVE calculateWinnerNoNullTestLoop(_, _)
calculateWinnerNoNullTestLoop(squares, i) ==
    IF i < length(lines)
    THEN LET a == lines[i][1]
             b == lines[i][2]
             c == lines[i][3]
         IN  IF squares[a] = squares[b] /\ squares[a] = squares[c]
             THEN <<squares[a], a, b, c>>
             ELSE calculateWinnerNoNullTestLoop(squares, i + 1)
    ELSE noWinner

calculateWinnerNoNullTest(squares) == calculateWinnerNoNullTestLoop(squares, 0)

\* calculateWinner comparing only the two ends of a line.
RECURSIVE calculateWinnerTwoCellsLoop(_, _)
calculateWinnerTwoCellsLoop(squares, i) ==
    IF i < length(lines)
    THEN LET a == lines[i][1]
             b == lines[i][2]
             c == lines[i][3]
         IN  IF squares[a] # null /\ squares[a] = squares[c]
             THEN <<squares[a], a, b, c>>
             ELSE calculateWinnerTwoCellsLoop(squares, i + 1)
    ELSE noWinner

calculateWinnerTwoCells(squares) == calculateWinnerTwoCellsLoop(squares, 0)

calculateWinner(squares) == calculateWinnerLoop(squares, 0)

----------------------------------------------------------------------------
\* The state of the Game component and the values derived at each render.
\* Every handler is a function from the state it is called in to the state
\* that its set-state calls produce for the next render.

state == [history |-> history, currentMove |-> currentMove, isAscending |-> isAscending]

\* useState(...) of history, currentMove and isAscending.
initialState ==
    [history |-> [m \in {0} |-> [squares |-> emptySquares, row |-> null, col |-> null]],
     currentMove |-> 0,
     isAscending |-> TRUE]

\* xIsNext with the parity test inverted.
xIsNextOnOdd(st) == st.currentMove % 2 = 1

\* const xIsNext = currentMove % 2 === 0
xIsNext(st) == st.currentMove % 2 = 0

\* const currentSquares = history[currentMove].squares
currentSquares(st) == st.history[st.currentMove].squares

----------------------------------------------------------------------------
\* The first variant of Game: history holds the arrays of squares themselves
\* and calculateWinner returns the winner's mark.

\* const lines = [...] of the first variant's calculateWinner
lines1 == [k \in 0..7 |->
            CASE k = 0 -> <<0, 1, 2>>
              [] k = 1 -> <<3, 4, 5>>
              [] k = 2 -> <<6, 7, 8>>
              [] k = 3 -> <<0, 3, 6>>
              [] k = 4 -> <<1, 4, 7>>
              [] k = 5 -> <<2, 5, 8>>
              [] k = 6 -> <<0, 4, 8>>
              [] k = 7 -> <<2, 4, 6>>]

\* The for loop of the first variant's calculateWinner, from iteration i on.
RECURSIVE calculateWinner1Loop(_, _)
calculateWinner1Loop(squares, i) ==
    IF i < length(lines1)
    THEN LET a == lines1[i][1]
             b == lines1[i][2]
             c == lines1[i][3]
         IN  IF squares[a] # null /\ squares[a] = squares[b] /\ squares[a] = squares[c]
             THEN squares[a]
             ELSE calculateWinner1Loop(squares, i + 1)
    ELSE null

calculateWinner1(squares) == calculateWinner1Loop(squares, 0)

state1 == [history |-> history1, currentMove |-> currentMove1]

\* useState(...) of history and currentMove.
initialState1 == [history |-> [m \in {0} |-> emptySquares], currentMove |-> 0]

\* const xIsNext = currentMove % 2 === 0
xIsNext1(st) == st.currentMove % 2 = 0

\* const currentSquares = history[currentMove]
currentSquares1(st) == st.history[st.currentMove]

\* handlePlay with [...history, nextSquares]: the boards after currentMove
\* are kept.
handlePlay1NoSlice(st, nextSquares) ==
    LET nextHistory ==
            [m \in 0..length(st.history) |->
                IF m < length(st.history) THEN st.history[m] ELSE nextSquares]
    IN  [st EXCEPT !.history = nextHistory, !.currentMove = length(nextHistory) - 1]

handlePlay1(st, nextSquares) ==
    LET nextHistory ==
            [m \in 0..(st.currentMove + 1) |->
                IF m <= st.currentMove THEN st.history[m] ELSE nextSquares]
    IN  [st EXCEPT !.history = nextHistory, !.currentMove = length(nextHistory) - 1]

handleClick1(st, i) ==
    IF calculateWinner1(currentSquares1(st)) # null \/ currentSquares1(st)[i] # null
    THEN st
    ELSE LET nextSquares ==
                 [currentSquares1(st) EXCEPT ![i] = IF xIsNext1(st) THEN "X" ELSE "O"]
         IN  handlePlay1(st, nextSquares)

jumpTo1(st, nextMove) == [st EXCEPT !.currentMove = nextMove]

\* The status line of the first variant's Board.
status1(st) ==
    LET winner == calculateWinner1(currentSquares1(st))
    IN  IF winner # null
        THEN <<"Winner: ", winner>>
        ELSE <<"Next player: ", IF xIsNext1(st) THEN "X" ELSE "O">>

\* The next render of the first variant sees the state the handler has set.
setState1(st) ==
    /\ history1' = st.history
    /\ currentMove1' = st.currentMove

----------------------------------------------------------------------------
\* Game.handlePlay and Board.handleClick

\* What a function returns when it ends without a return statement.
undefined == -1

\* Math.floor(undefined / 3) + 1 and undefined % 3 + 1
NaN == "NaN"

\* The first index at which the two arrays differ; undefined when there is none.
RECURSIVE getIndexLoop(_, _, _)
getIndexLoop(previousSquares, nextSquares, i) ==
    IF i < length(previousSquares)
    THEN IF previousSquares[i] # nextSquares[i]
         THEN i
         ELSE getIndexLoop(previousSquares, nextSquares, i + 1)
    ELSE undefined

getIndexOfTheLastSquare(previousSquares, nextSquares) ==
    getIndexLoop(previousSquares, nextSquares, 0)

\* [...history, entry]: the entries after currentMove are kept.
nextHistoryNoSlice(st, entry) ==
    [m \in 0..length(st.history) |-> IF m < length(st.history) THEN st.history[m] ELSE entry]

\* [...history.slice(1, currentMove + 1), entry]: the first entry is dropped.
nextHistorySliceFromOne(st, entry) ==
    [m \in 0..(st.currentMove) |-> IF m < st.currentMove THEN st.history[m + 1] ELSE entry]

\* [...history.slice(0, currentMove + 1), entry]
nextHistoryOf(st, entry) ==
    [m \in 0..(st.currentMove + 1) |-> IF m <= st.currentMove THEN st.history[m] ELSE entry]

\* handlePlay with setCurrentMove(nextHistory.length).
handlePlayPastEnd(st, nextSquares) ==
    LET previousSquares == st.history[st.currentMove].squares
        index == getIndexOfTheLastSquare(previousSquares, nextSquares)
        row == IF index = undefined THEN NaN ELSE (index \div 3) + 1
        col == IF index = undefined THEN NaN ELSE (index % 3) + 1
        nextHistory ==
            nextHistoryOf(st, [squares |-> nextSquares, row |-> row, col |-> col])
    IN  [st EXCEPT !.history = nextHistory, !.currentMove = length(nextHistory)]

\* handlePlay that stores the row and the column counted from 0.
handlePlayZeroBased(st, nextSquares) ==
    LET previousSquares == st.history[st.currentMove].squares
        index == getIndexOfTheLastSquare(previousSquares, nextSquares)
        row == IF index = undefined THEN NaN ELSE index \div 3
        col == IF index = undefined THEN NaN ELSE index % 3
        nextHistory ==
            nextHistoryOf(st, [squares |-> nextSquares, row |-> row, col |-> col])
    IN  [st EXCEPT !.history = nextHistory, !.currentMove = length(nextHistory) - 1]

handlePlay(st, nextSquares) ==
    LET previousSquares == st.history[st.currentMove].squares
        index == getIndexOfTheLastSquare(previousSquares, nextSquares)
        row == IF index = undefined THEN NaN ELSE (index \div 3) + 1
        col == IF index = undefined THEN NaN ELSE (index % 3) + 1
        nextHistory ==
            nextHistoryOf(st, [squares |-> nextSquares, row |-> row, col |-> col])
    IN  [st EXCEPT !.history = nextHistory, !.currentMove = length(nextHistory) - 1]

\* The condition of the early return of handleClick.
clickIgnored(st, i) ==
    calculateWinner(currentSquares(st)) # noWinner \/ currentSquares(st)[i] # null

\* handleClick whose early return tests only whether the square is filled.
handleClickNoWinnerTest(st, i) ==
    IF currentSquares(st)[i] # null
    THEN st
    ELSE LET nextSquares ==
                 [currentSquares(st) EXCEPT ![i] = IF xIsNext(st) THEN "X" ELSE "O"]
         IN  handlePlay(st, nextSquares)

\* handleClick whose early return tests only whether there is a winner.
handleClickNoFilledTest(st, i) ==
    IF calculateWinner(currentSquares(st)) # noWinner
    THEN st
    ELSE LET nextSquares ==
                 [currentSquares(st) EXCEPT ![i] = IF xIsNext(st) THEN "X" ELSE "O"]
         IN  handlePlay(st, nextSquares)

handleClick(st, i) ==
    IF clickIgnored(st, i)
    THEN st
    ELSE LET nextSquares ==
                 [currentSquares(st) EXCEPT ![i] = IF xIsNext(st) THEN "X" ELSE "O"]
         IN  handlePlay(st, nextSquares)

\* The next render sees the state the handler has set.
setState(st) ==
    /\ history' = st.history
    /\ currentMove' = st.currentMove
    /\ isAscending' = st.isAscending

\* A click on square i. A click that extends the game is followed only up to
\* MaxMoves moves.
Play(i) ==
    /\ currentMove < MaxMoves \/ clickIgnored(state, i)
    /\ setState(handleClick(state, i))
    /\ setState1(handleClick1(state1, i))
    /\ UNCHANGED <<squaresArg, winnerRes>>

----------------------------------------------------------------------------
\* Game.jumpTo

\* jumpTo that also drops the entries after nextMove.
jumpToTruncating(st, nextMove) ==
    [st EXCEPT !.currentMove = nextMove,
               !.history = [m \in 0..nextMove |-> st.history[m]]]

jumpTo(st, nextMove) == [st EXCEPT !.currentMove = nextMove]

\* The move list renders a button for every entry but the current one.
hasButton(st, move) == move >= 0 /\ move # st.currentMove

\* A click on the button of history entry move.
JumpTo(move) ==
    /\ hasButton(state, move)
    /\ setState(jumpTo(state, move))
    /\ setState1(jumpTo1(state1, move))
    /\ UNCHANGED <<squaresArg, winnerRes>>

----------------------------------------------------------------------------
\* Game.handleToggleOrder and the rendered move list

\* handleToggleOrder with setIsAscending(false).
handleToggleOrderToDescending(st) == [st EXCEPT !.isAscending = FALSE]

handleToggleOrder(st) == [st EXCEPT !.isAscending = ~st.isAscending]

\* A click on the "Toggle Move Order" button.
ToggleOrder ==
    /\ setState(handleToggleOrder(state))
    /\ UNCHANGED <<history1, currentMove1, squaresArg, winnerRes>>

\* description that tests for the game start before it tests for the
\* current move.
descriptionStartFirst(st, move) ==
    IF move = 0
    THEN <<"Go to game start">>
    ELSE IF move = st.currentMove
         THEN <<"You are at move #", move>>
         ELSE <<"Go to move #", move, st.history[move].row, st.history[move].col>>

\* The description of one entry of the move list.
description(st, move) ==
    IF move = st.currentMove
    THEN <<"You are at move #", move>>
    ELSE IF move > 0
         THEN <<"Go to move #", move, st.history[move].row, st.history[move].col>>
         ELSE <<"Go to game start">>

\* const moves = history.map(...): key, description and whether it is a button.
moves(st) ==
    [move \in DOMAIN st.history |->
        [key |-> move, description |-> description(st, move),
         button |-> hasButton(st, move)]]

\* <ol>{isAscending ? moves : moves.slice().reverse()}</ol>
renderedMoves(st) == IF st.isAscending THEN moves(st) ELSE reverse(moves(st))

----------------------------------------------------------------------------
\* The game

GameInit ==
    /\ history = initialState.history
    /\ currentMove = initialState.currentMove
    /\ isAscending = initialState.isAscending
    /\ history1 = initialState1.history
    /\ currentMove1 = initialState1.currentMove

Init ==
    /\ GameInit
    /\ squaresArg = emptySquares
    /\ winnerRes = <<"pending">>

Next ==
    \/ \E i \in Cells : Play(i)
    \/ \E move \in DOMAIN history : JumpTo(move)
    \/ ToggleOrder

Spec == Init /\ [][Next]_vars

----------------------------------------------------------------------------
\* A stand-alone call of calculateWinner on an arbitrary array of nine squares

EvalInit ==
    /\ GameInit
    /\ squaresArg \in Boards
    /\ winnerRes = <<"pending">>

Evaluate ==
    /\ winnerRes = <<"pending">>
    /\ winnerRes' = calculateWinner(squaresArg)
    /\ UNCHANGED <<history, currentMove, isAscending, history1, currentMove1, squaresArg>>

EvalNext == Evaluate

EvalSpec == EvalInit /\ [][EvalNext]_vars

----------------------------------------------------------------------------
\* What Board renders: the status line and the highlighted squares

\* Board's status that announces a full board without winner as a draw.
statusWithDraw(st) ==
    LET winner == calculateWinner(currentSquares(st))
    IN  IF winner # noWinner
        THEN <<"Winner: ", winner[1]>>
        ELSE IF \A i \in Cells : currentSquares(st)[i] # null
             THEN <<"Draw">>
             ELSE <<"Next player: ", IF xIsNext(st) THEN "X" ELSE "O">>

\* Board's status that names the player who moved last as the next one.
statusOfLastPlayer(st) ==
    LET winner == calculateWinner(currentSquares(st))
    IN  IF winner # noWinner
        THEN <<"Winner: ", winner[1]>>
        ELSE <<"Next player: ", IF xIsNext(st) THEN "O" ELSE "X">>

\* status = winner ? "Winner: " + winner[0] : "Next player: " + (xIsNext ? "X" : "O")
status(st) ==
    LET winner == calculateWinner(currentSquares(st))
    IN  IF winner # noWinner
        THEN <<"Winner: ", winner[1]>>
        ELSE <<"Next player: ", IF xIsNext(st) THEN "X" ELSE "O">>

\* isWinningSquare that marks every square holding the winner's mark.
isWinningSquareByMark(st, index) ==
    LET winner == calculateWinner(currentSquares(st))
    IN  winner # noWinner /\ currentSquares(st)[index] = winner[1]

\* const isWinningSquare = winner && winner.includes(index): winner is
\* [mark, a, b, c], and includes never finds a number equal to the mark, which
\* is a string.
isWinningSquare(st, index) ==
    LET winner == calculateWinner(currentSquares(st))
    IN  winner # noWinner /\ \E k \in 2..Len(winner) : winner[k] = index

\* The squares rendered with isHighlighted.
highlighted(st) == {index \in Cells : isWinningSquare(st, index)}

----------------------------------------------------------------------------
\* The endgame: every game that opens with OpeningMoves plays on the first
\* OpeningMoves squares of openingOrder, in any order, played to its end.

\* Number of plays of an opening.
OpeningMoves == 4

\* The squares of the openings are taken from the front of this list: with
\* four of them, the upper left block of the board.
openingOrder == <<0, 1, 3, 4, 2, 5, 6, 7, 8>>

OpeningCells == {openingOrder[k] : k \in 1..OpeningMoves}

\* A click on square i. Of the clicks that extend the game, those of the
\* first OpeningMoves moves are followed only on the squares of the opening.
EndgamePlay(i) ==
    /\ \/ currentMove >= OpeningMoves
       \/ i \in OpeningCells
       \/ clickIgnored(state, i)
    /\ setState(handleClick(state, i))
    /\ setState1(handleClick1(state1, i))
    /\ UNCHANGED <<squaresArg, winnerRes>>

EndgameNext ==
    \/ \E i \in Cells : EndgamePlay(i)
    \/ \E move \in DOMAIN history : JumpTo(move)
    \/ ToggleOrder

EndgameSpec == Init /\ [][EndgameNext]_vars

\* Some click that is followed sets something: the state in which a click
\* that adds a move can be made.
clickPossible ==
    \E i \in Cells :
        /\ currentMove >= OpeningMoves \/ i \in OpeningCells
        /\ ~clickIgnored(state, i)

\* The endgame with a user who keeps clicking on the squares: a click that
\* sets something does not stay possible for ever without one being made.
\* Of the steps of EndgameNext the clicks that set something are those that
\* change history, so this is weak fairness, WF_vars, of these clicks,
\* written out with clickPossible for their being enabled.
EndgameClicksSpec ==
    /\ Init
    /\ [][EndgameNext]_vars
    /\ \/ []<>~clickPossible
       \/ []<><<history' # history>>_vars

----------------------------------------------------------------------------
\* The eight lines in the order the specification gives them, and what it
\* means for a line to be won, stated without calculateWinner.

WinLines ==
    << <<0, 1, 2>>, <<3, 4, 5>>, <<6, 7, 8>>, <<0, 3, 6>>,
       <<1, 4, 7>>, <<2, 5, 8>>, <<0, 4, 8>>, <<2, 4, 6>> >>

\* Line k of WinLines holds three equal marks on squares.
lineWon(squares, k) ==
    /\ squares[WinLines[k][1]] \in Marks
    /\ squares[WinLines[k][2]] = squares[WinLines[k][1]]
    /\ squares[WinLines[k][3]] = squares[WinLines[k][1]]

wonLines(squares) == {k \in 1..Len(WinLines) : lineWon(squares, k)}

hasWinner(squares) == wonLines(squares) # {}

firstWonLine(squares) ==
    CHOOSE k \in wonLines(squares) : \A j \in wonLines(squares) : k <= j

\* The mark of a turn: X plays the odd moves, O the even ones.
markOfMove(m) == IF m % 2 = 1 THEN "X" ELSE "O"

\* Square i can be played on the live board.
validClick(i) ==
    currentSquares(state)[i] = null /\ ~hasWinner(currentSquares(state))

----------------------------------------------------------------------------
\* C1: for every array of nine squares over {null, X, O}, calculateWinner
\* returns the mark and the three indices of the first line, in the order
\* [0,1,2],[3,4,5],[6,7,8],[0,3,6],[1,4,7],[2,5,8],[0,4,8],[2,4,6], whose
\* squares are filled and equal, and returns null exactly when there is no
\* such line.
C1_FirstWonLine ==
    winnerRes # <<"pending">> =>
        IF hasWinner(squaresArg)
        THEN LET l == WinLines[firstWonLine(squaresArg)]
             IN  winnerRes = <<squaresArg[l[1]], l[1], l[2], l[3]>>
        ELSE winnerRes = noWinner

\* calculateWinner has run on squares where the row [3,4,5] and the column
\* [1,4,7] are won at once, and returned the row, which is listed first.
C1_Witness ==
    /\ winnerRes = <<"O", 3, 4, 5>>
    /\ wonLines(squaresArg) = {2, 5}
    /\ squaresArg[0] = "X"

\* C2: in every reachable state, a click on a square that is filled on the
\* live board, or on any square while the live board has a winner, sets
\* nothing: history, currentMove and isAscending stay as they are.
C2_IgnoredClickIsNoOp ==
    \A i \in Cells :
        (currentSquares(state)[i] # null \/ hasWinner(currentSquares(state))) =>
            LET s == handleClick(state, i)
            IN  /\ s.history = history
                /\ s.currentMove = currentMove
                /\ s.isAscending = isAscending

\* The live board has a winner and still an empty square, so that the click
\* on an empty square and the click on a filled one are both ignored there.
C2_Witness ==
    /\ hasWinner(currentSquares(state))
    /\ \E i \in Cells : currentSquares(state)[i] = null /\ handleClick(state, i) = state
    /\ \E i \in Cells : currentSquares(state)[i] # null /\ handleClick(state, i) = state
    /\ currentMove = length(history) - 1

\* C3: a click on an empty square of a live board without winner, at
\* currentMove = k, makes the live board the previous one with that square
\* set to X when k is even and to O when k is odd; the first click of a game
\* sets its square to X and moves currentMove from 0 to 1.
C3_PlayPlacesMark ==
    \A i \in Cells :
        validClick(i) =>
            LET s == handleClick(state, i)
            IN  /\ s.currentMove \in DOMAIN s.history
                /\ s.history[s.currentMove].squares =
                       [currentSquares(state) EXCEPT
                            ![i] = IF currentMove % 2 = 0 THEN "X" ELSE "O"]
                /\ state = initialState =>
                       (s.currentMove = 1 /\ s.history[1].squares[i] = "X")

\* An O has been placed: the live board is the last entry and differs from
\* the entry before it, which a click at an odd currentMove extended, by one O.
C3_Witness ==
    /\ currentMove = length(history) - 1
    /\ currentMove >= 2 /\ currentMove % 2 = 0
    /\ \E i \in Cells :
          /\ history[currentMove - 1].squares[i] = null
          /\ currentSquares(state) = [history[currentMove - 1].squares EXCEPT ![i] = "O"]
          /\ handleClick(jumpTo(state, currentMove - 1), i).history = history

\* C4: a click on an empty square of a live board without winner, at
\* currentMove = k, also after a jump back to k < length(history) - 1, keeps
\* the entries 0..k of history, drops every entry after k and appends one
\* entry, so that history has length k + 2, and sets currentMove to k + 1.
C4_PlayTruncatesAndAppends ==
    \A i \in Cells :
        validClick(i) =>
            LET s == handleClick(state, i)
            IN  /\ DOMAIN s.history = 0..(currentMove + 1)
                /\ length(s.history) = currentMove + 2
                /\ s.currentMove = currentMove + 1
                /\ \A m \in 0..currentMove : s.history[m] = history[m]

\* After a jump back over at least two entries a square can be played, and
\* playing it leaves a history shorter than the present one.
C4_Witness ==
    /\ currentMove + 2 < length(history)
    /\ \E i \in Cells :
          /\ validClick(i)
          /\ length(handleClick(state, i).history) < length(history)
          /\ handleClick(state, i).history[currentMove + 1].squares
                 # history[currentMove + 1].squares

\* C5: jumpTo(move), for every index move of history (before, after or at
\* currentMove), sets currentMove to move and leaves history and isAscending as
\* they are; after a jump every entry can still be jumped to and shows the
\* board that was recorded for it.
C5_JumpKeepsHistory ==
    \A move \in DOMAIN history :
        LET s == jumpTo(state, move)
        IN  /\ s.currentMove = move
            /\ s.history = history
            /\ s.isAscending = isAscending
            /\ \A m \in DOMAIN history :
                  /\ m # move => hasButton(s, m)
                  /\ currentSquares(jumpTo(s, m)) = history[m].squares

\* A jump back has been made: the live board is not the last entry, and the
\* last entry still holds the board of the latest move.
C5_Witness ==
    /\ length(history) >= 4
    /\ currentMove = 1
    /\ \E i \in Cells : history[length(history) - 1].squares[i] = "O"
    /\ \E i \in Cells : currentSquares(state)[i] = "X"

\* C6: handleToggleOrder flips isAscending and nothing else: history and
\* currentMove stay, the rendered move list becomes the reverse of the one
\* rendered before, and a second toggle gives back the first rendering; the
\* flag starts as ascending.
C6_ToggleReversesList ==
    LET s == handleToggleOrder(state)
    IN  /\ s.history = history
        /\ s.currentMove = currentMove
        /\ s.isAscending = ~isAscending
        /\ renderedMoves(s) = reverse(renderedMoves(state))
        /\ renderedMoves(handleToggleOrder(s)) = renderedMoves(state)
        /\ handleToggleOrder(s) = state
        /\ initialState.isAscending
        /\ renderedMoves(initialState) = moves(initialState)

\* The toggle has been clicked on a list of several moves: the list is
\* rendered newest first.
C6_Witness ==
    /\ ~isAscending
    /\ length(history) >= 3
    /\ renderedMoves(state)[0].key = length(history) - 1
    /\ renderedMoves(state)[length(history) - 1].key = 0

\* The squares on which two boards differ.
changedCells(previousSquares, nextSquares) ==
    {i \in Cells : previousSquares[i] # nextSquares[i]}

\* C7: in every reachable state, for every m with 0 < m < length(history),
\* exactly one square differs between the boards of history[m-1] and
\* history[m]; it is empty in history[m-1] and holds the mark of move m in
\* history[m]: X for odd m, O for even m.
C7_OneCellPerMove ==
    \A m \in DOMAIN history \ {0} :
        LET D == changedCells(history[m - 1].squares, history[m].squares)
        IN  /\ Cardinality(D) = 1
            /\ \A i \in D :
                  /\ history[m - 1].squares[i] = null
                  /\ history[m].squares[i] = markOfMove(m)

\* A game of five moves, looked at from move 2 with the list reversed: plays,
\* a jump and a toggle have all happened.
C7_Witness ==
    /\ length(history) = 6
    /\ currentMove = 2
    /\ ~isAscending

\* C8: in every reachable state history[0] is the entry of nine empty
\* squares with null row and null col.
C8_FirstEntryIsEmptyBoard ==
    /\ 0 \in DOMAIN history
    /\ history[0].squares = emptySquares
    /\ history[0].row = null
    /\ history[0].col = null

\* A play at square 8, a jump back to the start and a toggle have happened,
\* and the first entry is the one now shown.
C8_Witness ==
    /\ length(history) = 2
    /\ currentMove = 0
    /\ history[1].squares[8] = "X"
    /\ ~isAscending

\* C9: in every reachable state 0 <= currentMove < length(history), the
\* indices of history are 0..length-1, so that history[currentMove] is
\* defined; every jump the move list offers stays in that range.
C9_CurrentMoveInRange ==
    /\ currentMove \in Nat
    /\ currentMove < length(history)
    /\ DOMAIN history = 0..(length(history) - 1)
    /\ \A move \in DOMAIN history :
          hasButton(state, move) => jumpTo(state, move).currentMove \in DOMAIN history

\* currentMove is at the last entry after four plays.
C9_Witness ==
    /\ currentMove = 4
    /\ length(history) = 5

\* The squares clicked in the scenario 0, 4, 8, 2, 6.
ScenarioCells == <<0, 4, 8, 2, 6>>

\* history records exactly the five plays of the scenario and the live board
\* is the one after the fifth.
scenarioPlayed ==
    /\ length(history) = Len(ScenarioCells) + 1
    /\ currentMove = Len(ScenarioCells)
    /\ \A m \in 1..Len(ScenarioCells) :
          changedCells(history[m - 1].squares, history[m].squares) = {ScenarioCells[m]}

\* C10 as stated: after the plays at 0, 4, 8, 2, 6 from the initial state the
\* live board's winner is X with the line 0, 4, 8.
C10_ScenarioXWinsDiagonal ==
    scenarioPlayed => calculateWinner(currentSquares(state)) = <<"X", 0, 4, 8>>

\* C10, amended: after the plays at 0, 4, 8, 2, 6 from the initial state the
\* live board holds X on 0, 8, 6 and O on 4, 2 (square 4, the middle of the
\* diagonal 0, 4, 8, is O's), and calculateWinner returns null for it.
C10_ScenarioHasNoWinner ==
    scenarioPlayed =>
        /\ currentSquares(state) =
               [i \in Cells |-> IF i \in {0, 8, 6} THEN "X"
                                ELSE IF i \in {4, 2} THEN "O" ELSE null]
        /\ calculateWinner(currentSquares(state)) = noWinner

\* The five plays of the scenario have been made.
C10_Witness ==
    /\ scenarioPlayed
    /\ history[5].row = 3 /\ history[5].col = 1

----------------------------------------------------------------------------
\* Properties of the rendered status, highlights and move list, and of whole
\* games

\* The live board is full.
boardFull(squares) == \A i \in Cells : squares[i] # null

\* C11: in every reachable state the status is "Winner: " and the mark of
\* the first won line of the live board when a line is won, and otherwise
\* "Next player: X" for an even and "Next player: O" for an odd currentMove,
\* so that it is determined by the live board and currentMove.
C11_StatusText ==
    status(state) =
        IF hasWinner(currentSquares(state))
        THEN <<"Winner: ",
               currentSquares(state)[WinLines[firstWonLine(currentSquares(state))][1]]>>
        ELSE <<"Next player: ", IF currentMove % 2 = 0 THEN "X" ELSE "O">>

\* O has won with the sixth move and the status says so; an earlier entry of
\* the same game asks for X.
C11_Witness ==
    /\ currentMove = 6
    /\ status(state) = <<"Winner: ", "O">>
    /\ status(jumpTo(state, 4)) = <<"Next player: ", "X">>
    /\ status(jumpTo(state, 5)) = <<"Next player: ", "O">>

\* C12: in every reachable state the highlighted squares are the three
\* squares of the first won line of the live board when a line is won, and
\* none otherwise; while a line is won a click on any empty square sets
\* nothing.
C12_HighlightedLine ==
    LET squares == currentSquares(state)
    IN  IF hasWinner(squares)
        THEN /\ highlighted(state) =
                    {WinLines[firstWonLine(squares)][k] : k \in 1..3}
             /\ \A i \in Cells : squares[i] = null => handleClick(state, i) = state
        ELSE highlighted(state) = {}

\* The board X,X,X,O,O,empty,...: squares 0, 1, 2 are highlighted and the
\* click on the empty square 5 is ignored.
C12_Witness ==
    /\ currentSquares(state) =
           [i \in Cells |-> IF i \in {0, 1, 2} THEN "X"
                            ELSE IF i \in {3, 4} THEN "O" ELSE null]
    /\ highlighted(state) = {0, 1, 2}
    /\ status(state) = <<"Winner: ", "X">>
    /\ handleClick(state, 5) = state

\* C13 as stated: the move list has one entry per entry of history; the entry
\* of move 0 reads "game start", the entry of currentMove reads "you are at
\* move #n", and every other entry n reads "move #n (row, col)" with the row
\* and col of history[n].
C13_DescriptionsAsStated ==
    /\ DOMAIN moves(state) = DOMAIN history
    /\ \A n \in DOMAIN history :
          /\ n = 0 => moves(state)[n].description = <<"Go to game start">>
          /\ n = currentMove =>
                 moves(state)[n].description = <<"You are at move #", n>>
          /\ (n # 0 /\ n # currentMove) =>
                 moves(state)[n].description =
                     <<"Go to move #", n, history[n].row, history[n].col>>

\* C13, amended: the move list has one entry per entry of history; the entry
\* of currentMove reads "you are at move #n", also when it is move 0; of the
\* other entries, move 0 reads "game start" and every n > 0 reads
\* "move #n (row, col)" with the row and col of history[n].
C13_Descriptions ==
    /\ DOMAIN moves(state) = DOMAIN history
    /\ \A n \in DOMAIN history :
          moves(state)[n].description =
              IF n = currentMove
              THEN <<"You are at move #", n>>
              ELSE IF n = 0
                   THEN <<"Go to game start">>
                   ELSE <<"Go to move #", n, history[n].row, history[n].col>>

\* The list of a game of three moves seen from the start: "you are at move
\* #0" and three entries with row and column.
C13_Witness ==
    /\ length(history) = 4
    /\ currentMove = 0
    /\ moves(state)[0].description = <<"You are at move #", 0>>
    /\ moves(state)[3].description = <<"Go to move #", 3, 3, 3>>

\* C14: in every reachable state, for every m with 0 < m < length(history),
\* history[m] stores row = floor(i / 3) + 1 and col = (i mod 3) + 1, both in
\* 1..3, where i is the one square on which the boards of history[m-1] and
\* history[m] differ.
C14_RowAndColOfClickedSquare ==
    \A m \in DOMAIN history \ {0} :
        LET D == changedCells(history[m - 1].squares, history[m].squares)
        IN  /\ Cardinality(D) = 1
            /\ \A i \in D :
                  /\ history[m].row = (i \div 3) + 1
                  /\ history[m].col = (i % 3) + 1
                  /\ history[m].row \in 1..3
                  /\ history[m].col \in 1..3

\* Plays on square 5 (row 2, column 3) and then on square 6 (row 3, column 1)
\* are recorded.
C14_Witness ==
    /\ length(history) >= 3
    /\ changedCells(history[0].squares, history[1].squares) = {5}
    /\ history[1].row = 2 /\ history[1].col = 3
    /\ changedCells(history[1].squares, history[2].squares) = {6}
    /\ history[2].row = 3 /\ history[2].col = 1

\* C15: in every reachable state whose live board is full and has no won
\* line, the status is "Next player: O", every click on a square sets nothing,
\* the toggle leaves the live board as it is, and a jump to another move shows
\* another board.
C15_FullBoardWithoutWinner ==
    (boardFull(currentSquares(state)) /\ ~hasWinner(currentSquares(state))) =>
        /\ status(state) = <<"Next player: ", "O">>
        /\ \A i \in Cells : handleClick(state, i) = state
        /\ currentSquares(handleToggleOrder(state)) = currentSquares(state)
        /\ \A move \in DOMAIN history :
              move # currentMove =>
                  currentSquares(jumpTo(state, move)) # currentSquares(state)

\* A game of nine moves has ended without a won line and its last board is
\* shown.
C15_Witness ==
    /\ currentMove = 9
    /\ boardFull(currentSquares(state))
    /\ calculateWinner(currentSquares(state)) = noWinner
    /\ status(state) = <<"Next player: ", "O">>

\* C16: in every reachable state calculateWinner returns null for the board
\* of every entry of history but the last, and no board of history holds a
\* won line of X together with a won line of O.
C16_WinnerOnlyInLastEntry ==
    \A m \in DOMAIN history :
        /\ m < length(history) - 1 =>
               /\ calculateWinner(history[m].squares) = noWinner
               /\ ~hasWinner(history[m].squares)
        /\ \A j, k \in wonLines(history[m].squares) :
               history[m].squares[WinLines[j][1]] = history[m].squares[WinLines[k][1]]

\* The last entry holds a board on which X has won two lines at once, and an
\* earlier entry is shown.
C16_Witness ==
    /\ currentMove < length(history) - 1
    /\ Cardinality(wonLines(history[length(history) - 1].squares)) = 2
    /\ calculateWinner(history[length(history) - 1].squares)[1] = "X"

\* The number of squares of a board that hold mark.
countOf(squares, mark) == Cardinality({i \in Cells : squares[i] = mark})

\* C17: in every reachable state the board of history[m] holds exactly m
\* marks, ceil(m/2) of them X and floor(m/2) of them O, for every m; so
\* history has at most 10 entries, currentMove is at most 9, and xIsNext is
\* true exactly when the live board holds as many X as O, that is when it is
\* X's turn on it.
C17_MarkCounts ==
    /\ \A m \in DOMAIN history :
          /\ countOf(history[m].squares, "X") = (m + 1) \div 2
          /\ countOf(history[m].squares, "O") = m \div 2
          /\ countOf(history[m].squares, null) = 9 - m
    /\ length(history) <= 10
    /\ currentMove <= 9
    /\ xIsNext(state) <=>
           countOf(currentSquares(state), "X") = countOf(currentSquares(state), "O")

\* A game of nine moves, looked at from its third move, where it is O's turn.
C17_Witness ==
    /\ length(history) = 10
    /\ currentMove = 3
    /\ ~xIsNext(state)
    /\ countOf(history[9].squares, "X") = 5

\* No click sets anything: handleClick returns the state for every square.
allClicksIgnored(st) == \A i \in Cells : handleClick(st, i) = st

\* The game shown is over: the live board has a won line or is full.
gameOver(st) == hasWinner(currentSquares(st)) \/ boardFull(currentSquares(st))

\* A step of jumpTo to another move.
jumpStep == currentMove' # currentMove /\ history' = history

\* C18: every click that changes the state moves currentMove up by one, to at
\* most 9, so that a run without jumps holds at most 9 of them; clicks are
\* all ignored exactly when the live board has a won line or is full, and
\* neither a click nor the toggle leads from such a state to one where a
\* click counts: only a jump to a board without won line and with an empty
\* square does; in a run in which the jumps come to an end and the squares
\* keep being clicked the game reaches a state in which all clicks are
\* ignored and stays there.
C18_GameEnds ==
    /\ [][history' # history =>
              (currentMove' = currentMove + 1 /\ currentMove' <= 9)]_vars
    /\ [](/\ allClicksIgnored(state) <=> gameOver(state)
          /\ gameOver(state) =>
                 /\ gameOver(handleToggleOrder(state))
                 /\ \A i \in Cells : gameOver(handleClick(state, i)))
    /\ (<>[][~jumpStep]_vars => <>[]gameOver(state))

\* X has won with the ninth move: the board is full, all clicks are ignored
\* and nine plays are recorded.
C18_Witness ==
    /\ currentMove = 9
    /\ length(history) = 10
    /\ hasWinner(currentSquares(state))
    /\ allClicksIgnored(state)

\* C19: the two variants of Game, given the same clicks on squares and the
\* same jumps to recorded moves, show the same: the same currentMove, the
\* same boards in history, the same live board and the same status line. A
\* jump to the move shown, which only the first variant offers, changes
\* nothing in either.
C19_VariantsAgree ==
    /\ currentMove1 = currentMove
    /\ DOMAIN history1 = DOMAIN history
    /\ \A m \in DOMAIN history : history1[m] = history[m].squares
    /\ currentSquares1(state1) = currentSquares(state)
    /\ status1(state1) = status(state)
    /\ jumpTo1(state1, currentMove1) = state1
    /\ jumpTo(state, currentMove) = state

\* X has won with the seventh move and both variants show the fourth: the
\* first variant holds eight boards and announces X as the next player.
C19_Witness ==
    /\ length(history1) = 8
    /\ currentMove1 = 4
    /\ calculateWinner1(history1[7]) = "X"
    /\ status1(state1) = <<"Next player: ", "X">>
    /\ length(history) = 8

====
